---------------------------- MODULE Spec2Model ----------------------------
(***************************************************************************)
(* Model of mysql-slow-query-lab: the synthetic order builder, the four    *)
(* count-then-top-up population paths, the scenario runner and main.       *)
(*                                                                         *)
(* The relational store is the sequence `store` of order rows in insertion *)
(* order (the auto-assigned ID of a row is its position).  Times are whole *)
(* seconds counted from 2024-01-01 00:00:00, the start of the date-range   *)
(* window (indexFuncRangeStart).                                           *)
(*                                                                         *)
(* The population sizes of the source (1,000,000 hot-customer rows, 2,000  *)
(* date-range rows, 2,000 hot-phone rows, batches of 1000 and 2000, the    *)
(* first 1000 indexes being hot) are scaled down to the small numbers      *)
(* below; every formula is stated over the names, never over the numbers.  *)
(***************************************************************************)
EXTENDS Integers, Sequences, FiniteSets, TLC

\* ------------------------------------------------------------------------
\* Scaled sizes (the value the source gives is in the comment).
\* ------------------------------------------------------------------------
\* models.go:36  CoveringCustomerTarget = 1000000
CoveringCustomerTarget == 4
\* models.go:37  DateRangeOrderTarget = 2000
DateRangeOrderTarget == 2
\* models.go:38  phoneHotRowTarget = 2000
phoneHotRowTarget == 2
\* seed.go:69  globalIdx < 1000
HotIndexLimit == 1
\* models.go:223  make([]Order, 0, 1000)
HotBatchCap == 2
\* models.go:262  make([]Order, 0, 1000)
PhoneBatchCap == 1
\* models.go:309  make([]Order, 0, 2000)
DateBatchCap == 2
\* seed.go:30  cfg.BatchSize = 1000
DefaultBatchSize == 2
\* main.go:22  flag.Int("orders", 1000000, ...): the largest -orders value tried
\* is CoveringCustomerTarget + ExtraOrders
ExtraOrders == 1
\* process runs (invocations of main) against the same store
MaxRuns == 2
\* store calls that fail during one process run
MaxFaults == 1
\* the longest measured query duration
MaxDuration == 1
\* the values of a random source range over 0..RawMod-1
RawMod == 997

\* models.go:35
coveringCustomerID == 100

Hour == 60 * 60
\* models.go:53-54: the window [indexFuncRangeStart, indexFuncRangeEnd)
indexFuncRangeStart == 0
indexFuncRangeEnd == indexFuncRangeStart + 24 * Hour

Min(a, b) == IF a < b THEN a ELSE b
Max(a, b) == IF a > b THEN a ELSE b

\* ------------------------------------------------------------------------
\* Random generators (seed.go:102-152).  A draw is the value rnd.Intn(n)
\* returned, in [0, n); rnd.Float64() is drawn in hundredths, in [0, 100).
\* ------------------------------------------------------------------------
RECURSIVE Pow10(_)
Pow10(k) == IF k = 0 THEN 1 ELSE 10 * Pow10(k - 1)

\* fmt "%08d" (and "%06d") of n: the decimal digits of n, zero-padded to w
\* (n < 10^w at every call)
PadDigits(n, w) == [k \in 1..w |-> (n \div Pow10(w - k)) % 10]

prefixes == << <<1, 3, 8>>, <<1, 3, 9>>, <<1, 3, 7>>, <<1, 8, 8>>, <<1, 9, 9>> >>

\* randomPhone with the two draws Intn(5), Intn(100000000)
randomPhone(pre, suf) == prefixes[pre + 1] \o PadDigits(suf, 8)

\* the string "13812345678"
PhoneHotValue == <<1, 3, 8, 1, 2, 3, 4, 5, 6, 7, 8>>

regions == <<"north", "south", "east", "west">>
statuses == <<"pending", "paid", "fulfilled", "cancelled">>
categories == <<"fashion", "electronics", "books", "grocery", "home">>
loremSamples == <<"gift wrap", "change address", "wholesale", "loyalty", "fraud review">>

randomChoice(items, n) == items[n + 1]

weights == [pending |-> 30, paid |-> 40, fulfilled |-> 20, cancelled |-> 10]

RECURSIVE SumWeights(_, _)
SumWeights(items, k) ==
    IF k = 0 THEN 0 ELSE SumWeights(items, k - 1) + weights[items[k]]

WeightTotal(items) == SumWeights(items, Len(items))

RECURSIVE WeightedLoopAlt(_, _, _)
WeightedLoopAlt(items, k, n) ==
    IF k > Len(items) THEN items[1]
    ELSE IF n - weights[items[k]] <= 0 THEN items[k]
    ELSE WeightedLoopAlt(items, k + 1, n - weights[items[k]])

\* the selection loop from the k-th item on with n left, then the final
\* return items[0] (seed.go:139-145)
RECURSIVE WeightedLoop(_, _, _)
WeightedLoop(items, k, n) ==
    IF k > Len(items) THEN items[1]
    ELSE IF n - weights[items[k]] < 0 THEN items[k]
    ELSE WeightedLoop(items, k + 1, n - weights[items[k]])

\* randomChoiceWeighted with the draw n = Intn(total)
randomChoiceWeighted(items, n) == WeightedLoop(items, 1, n)

\* where the call returns: the position of the item at which the loop
\* returns (seed.go:141-143), or 0 when the loop ends and the final return is
\* executed (seed.go:145)
RECURSIVE WeightedExit(_, _, _)
WeightedExit(items, k, n) ==
    IF k > Len(items) THEN 0
    ELSE IF n - weights[items[k]] < 0 THEN k
    ELSE WeightedExit(items, k + 1, n - weights[items[k]])

customerName(id) == <<"Customer", PadDigits(id, 6)>>

discountCode(n) == <<"CODE", PadDigits(n, 2)>>

\* ShippedAt is a pointer: << >> is nil, <<t>> points at t
Nil == << >>
Ptr(t) == <<t>>

\* ------------------------------------------------------------------------
\* Synthetic record builder (seed.go:67-100).  d holds the draws in the order
\* the code makes them; cid is used only when globalIdx >= HotIndexLimit,
\* shipH only when shipF > 30, pre2 and suf2 only for a non-hot customer.
\* ------------------------------------------------------------------------
BuilderCustomerAlt(globalIdx, d) == d.cid + 1

BuilderCustomer(globalIdx, d) ==
    IF globalIdx < HotIndexLimit THEN coveringCustomerID ELSE d.cid + 1

BuilderShippedAlt(created, d) ==
    IF d.shipF > 30 THEN Ptr(created - d.shipH * Hour) ELSE Nil

BuilderShipped(created, d) ==
    IF d.shipF > 30 THEN Ptr(created + d.shipH * Hour) ELSE Nil

buildSyntheticOrder(globalIdx, d, now) ==
    LET customerID == BuilderCustomer(globalIdx, d)
        created == now - d.createdH * Hour
    IN  [ID |-> 0,
         CustomerID |-> customerID,
         CustomerName |-> customerName(customerID),
         Phone |-> IF customerID # coveringCustomerID
                   THEN randomPhone(d.pre2, d.suf2)
                   ELSE randomPhone(d.pre1, d.suf1),
         Status |-> randomChoiceWeighted(statuses, d.status),
         ProductCategory |-> randomChoice(categories, d.cat),
         Region |-> randomChoice(regions, d.region),
         TotalAmount |-> 1000 + d.amount * 990,
         DiscountCode |-> discountCode(d.disc),
         Note |-> <<"lorem", randomChoice(loremSamples, d.note)>>,
         CreatedAt |-> created,
         UpdatedAt |-> created,
         ShippedAt |-> BuilderShipped(created, d)]

\* ------------------------------------------------------------------------
\* Inputs.  Draws are bounded to a few representative values per call site.
\* ------------------------------------------------------------------------
\* an ordinary record: another customer, created an hour before now (outside
\* the date window), shipped five hours later, an ordinary phone
BaseDraw ==
    [cid |-> 6, createdH |-> 1, shipF |-> 90, shipH |-> 5, pre1 |-> 1, suf1 |-> 1,
     status |-> 35, cat |-> 0, region |-> 0, amount |-> 50, disc |-> 7, note |-> 0,
     pre2 |-> 2, suf2 |-> 2]

\* the coincidences: the random customer id is the hot one, the creation time
\* is now (inside the date window), the shipping delay is zero hours, the
\* random phone is the hot phone
EdgeDraw ==
    [BaseDraw EXCEPT !.cid = coveringCustomerID - 1, !.createdH = 0, !.shipH = 0,
                     !.pre1 = 0, !.suf1 = 12345678, !.status = 99]

\* an unshipped record (Float64 not above 0.3)
UnshippedDraw == [BaseDraw EXCEPT !.shipF = 30, !.status = 0]

GeneralDraws == {BaseDraw, EdgeDraw, UnshippedDraw}

\* draws of ensurePhoneHotOrders: Intn(365*24), Intn(4), Float64
PhoneDraws == {[createdH |-> 1, status |-> 0, amount |-> 50]}

\* draws of ensureDateRangeOrders: Intn(24*60*60), Float64, Intn(48), Intn(100),
\* Intn(5), Intn(4), Float64, Intn(100)
BaseDateDraw ==
    [createdS |-> 24 * Hour - 1, shipF |-> 90, shipH |-> 0, status |-> 95, cat |-> 1,
     region |-> 1, amount |-> 50, disc |-> 0]

DateDraws == {BaseDateDraw, [BaseDateDraw EXCEPT !.createdS = 0, !.shipF = 40]}

\* time.Since(start) of a scenario query
Durations == 1..MaxDuration

\* time.Now() of a population call
NowSet == {Hour \div 2}

\* the command lines tried (main.go:21-28): the defaults (make run),
\* -skip-scenarios (make seed) with a negative -orders and -batch 0, and with
\* -orders 0 and a negative -batch, -skip-seed -orders 0 (make compare-index),
\* and a larger -orders with another -batch
CommandLines ==
    {[orders |-> CoveringCustomerTarget, batch |-> DefaultBatchSize,
      skipSeed |-> FALSE, skipScenarios |-> FALSE],
     [orders |-> -1, batch |-> 0,
      skipSeed |-> FALSE, skipScenarios |-> TRUE],
     [orders |-> 0, batch |-> -1,
      skipSeed |-> FALSE, skipScenarios |-> TRUE],
     [orders |-> 0, batch |-> DefaultBatchSize,
      skipSeed |-> TRUE, skipScenarios |-> FALSE],
     [orders |-> CoveringCustomerTarget + ExtraOrders, batch |-> DefaultBatchSize + 1,
      skipSeed |-> FALSE, skipScenarios |-> FALSE]}

ErrDB == <<"db error">>
ErrRecordNotFound == <<"record not found">>
NoErr == << >>

\* ------------------------------------------------------------------------
\* State
\* ------------------------------------------------------------------------
VARIABLES
    store,      \* the orders table, in insertion order
    pc,         \* where main is: idle, open, migrate, seed, stats, run, setup,
                \* query, explain, print
    flags,      \* the parsed command line of the current process run
    exit,       \* how the last process run ended
    runs,       \* process runs started so far
    faults,     \* store calls that failed in the current process run
    tu,         \* the frame of the top-up function being executed
    scIdx,      \* RunScenarios: index of the catalog entry being processed
    results,    \* RunScenarios: the results slice
    cur,        \* RunScenarios: duration and count measured by the last query
    server,     \* whether the engine supports EXPLAIN ANALYZE
    ret,        \* observer: the last return of a top-up function
    trace,      \* observer: what the current process run has been through
    calls,      \* observer: the store calls the population functions and
                \* RunScenarios issued in the current process run, in order
    pick,       \* a call of randomChoiceWeighted taken on its own: the draw
                \* and what the call returned
    lab         \* general seeding taken on its own, with the seeded source
                \* followed draw by draw

vars == <<store, pc, flags, exit, runs, faults, tu, scIdx, results, cur, server, ret, trace,
          calls, pick, lab>>

NoFrame ==
    [fn |-> "none", target |-> 0, existing |-> 0, i |-> 0, n |-> 0, cap |-> 0,
     batch |-> << >>, template |-> << >>, now |-> 0, inserts |-> << >>,
     before |-> << >>, built |-> << >>]

NoRet ==
    [fn |-> "none", target |-> 0, err |-> NoErr, existing |-> 0, inserts |-> << >>,
     created |-> 0, kept |-> TRUE, count |-> 0, again |-> FALSE, prevExisting |-> 0,
     cap |-> 0, built |-> << >>, at |-> 0]

NoCur == [idx |-> 0, Duration |-> 0, RowCount |-> 0, attempts |-> << >>]

\* observer of a process run: whether RunScenarios was entered, whether the
\* results table was reached, the fatal stage, the store calls that failed
\* (scenario index or 0, stage), the -orders target of the preceding
\* process run if that run completed its seeding (else 0), whether
\* SeedDataset of this run found the table empty and returned nil, and the
\* command line as it was given (before -orders is raised)
NoTrace ==
    [invoked |-> FALSE, table |-> FALSE, failed |-> "none", faultLog |-> << >>,
     prevSeeded |-> 0, seededEmpty |-> FALSE,
     argv |-> [orders |-> 0, batch |-> 0, skipSeed |-> FALSE, skipScenarios |-> FALSE]]

\* no call of randomChoiceWeighted is being examined
NoPick == [n |-> 0, done |-> FALSE, item |-> "", exit |-> 0]

\* general seeding is not being examined; else: the store, the locals of
\* seedOrders (cap is cfg.BatchSize, rnd the source with the seed it was
\* created from and the number of values drawn from it), the records built by
\* the current call with their global index and draws, and what the first
\* call that populated the empty store built
NoLab ==
    [phase |-> "none", target |-> 0, store |-> << >>, runs |-> 0, cap |-> 0,
     now |-> 0, existing |-> 0, i |-> 0, n |-> 0, batch |-> << >>,
     rnd |-> [seed |-> 0, pos |-> 0], built |-> << >>, inserts |-> << >>,
     first |-> [set |-> FALSE, cap |-> 0, now |-> 0, built |-> << >>, pos |-> 0,
                inserts |-> << >>]]

ProgramInit ==
    /\ store = << >>
    /\ pc = "idle"
    /\ flags = [orders |-> 0, batch |-> 0, skipSeed |-> FALSE, skipScenarios |-> FALSE]
    /\ exit = [status |-> "none", cause |-> "none"]
    /\ runs = 0
    /\ faults = 0
    /\ tu = NoFrame
    /\ scIdx = 0
    /\ results = << >>
    /\ cur = NoCur
    /\ server \in [analyze : BOOLEAN]
    /\ ret = NoRet
    /\ trace = NoTrace
    /\ calls = << >>

Init ==
    /\ ProgramInit
    /\ pick = NoPick
    /\ lab = NoLab

\* ------------------------------------------------------------------------
\* The store boundary
\* ------------------------------------------------------------------------
\* db.Create(&batch): one INSERT of the whole batch; the rows get the next IDs
Create(rows, batch) ==
    rows \o [k \in 1..Len(batch) |-> [batch[k] EXCEPT !.ID = Len(rows) + k]]

RECURSIVE NextFlushAlt(_, _, _, _)
NextFlushAlt(j, len, cap, last) ==
    IF len = cap \/ j = last THEN j
    ELSE NextFlushAlt(j + 1, len + 1, cap, last)

\* the loop index at which the next flush happens: the first j >= i with
\* len(batch) == cap after the append, or j == last
RECURSIVE NextFlush(_, _, _, _)
NextFlush(j, len, cap, last) ==
    IF len + 1 = cap \/ j = last THEN j
    ELSE NextFlush(j + 1, len + 1, cap, last)

CanFail == faults < MaxFaults

\* observer: function fn issued the store call op while catalog entry scIdx
\* (0: none) was being processed, and the call succeeded or not
Call(fn, op, ok) == [sc |-> scIdx, fn |-> fn, op |-> op, ok |-> ok]

\* observer: a store call failed at stage `stage` (of scenario scIdx, if any)
Fault(stage) == [trace EXCEPT !.faultLog = Append(@, <<scIdx, stage>>)]

\* log.Fatalf: the process ends with a failure status
Fatal(cause) ==
    /\ pc' = "idle"
    /\ exit' = [status |-> "fatal", cause |-> cause]
    /\ trace' = [Fault(cause) EXCEPT !.failed = cause]

\* the rows a top-up function counts before it inserts
IsHotCustomer(row) == row.CustomerID = coveringCustomerID
InDateRange(row) ==
    row.CreatedAt >= indexFuncRangeStart /\ row.CreatedAt < indexFuncRangeEnd
IsHotPhone(row) == row.Phone = PhoneHotValue

PathCount(fn, rows) ==
    CASE fn = "seedOrders" -> Len(rows)
      [] fn = "ensureHotCustomerOrders" -> Len(SelectSeq(rows, IsHotCustomer))
      [] fn = "ensureDateRangeOrders" -> Len(SelectSeq(rows, InDateRange))
      [] fn = "ensurePhoneHotOrders" -> Len(SelectSeq(rows, IsHotPhone))

\* observer: the return of a top-up function: the count it read (existing),
\* the db.Create calls it issued (batch size, and whether the call
\* succeeded), the number of rows the store gained (created), whether the rows
\* that were there before the call are still the first rows, unchanged (kept),
\* and the matching count at the return (count).  `again` says that this call
\* immediately follows a call of the same function with the same target that
\* returned nil (the store is written by top-up calls only, so it is the store
\* that call left); prevExisting is the count that call had read; cap is the
\* capacity of the batch slice of the call (0 when it returned before the loop);
\* built is, for seedOrders, the global indexes it passed to the builder; at is
\* the number of rows the table held when the call began (the rows the call
\* created follow them).
RetOf(fn, target, existing, err, inserts, before, after) ==
    [fn |-> fn, target |-> target, err |-> err, existing |-> existing,
     inserts |-> inserts,
     created |-> Len(after) - Len(before),
     kept |-> Len(after) >= Len(before) /\ SubSeq(after, 1, Len(before)) = before,
     count |-> PathCount(fn, after),
     again |-> ret.fn = fn /\ ret.target = target /\ ret.err = NoErr,
     prevExisting |-> ret.existing,
     cap |-> tu.cap,
     built |-> << >>,
     at |-> Len(before)]

\* batch = batch[:0]
ResetBatchAlt(batch) == batch

ResetBatch(batch) == << >>

\* what the loop does when db.Create returns an error: return it
OnCreateErrorAlt(err) == "continue"

OnCreateError(err) == "return"

\* ------------------------------------------------------------------------
\* main (main.go:20-86)
\* ------------------------------------------------------------------------
\* flag.Parse and the raising of -orders (main.go:21-33)
Start ==
    /\ pc = "idle"
    /\ runs < MaxRuns
    /\ \E c \in CommandLines :
         /\ flags' = [c EXCEPT !.orders = IF c.orders < CoveringCustomerTarget
                                          THEN CoveringCustomerTarget ELSE c.orders]
         /\ trace' = [NoTrace EXCEPT
                         !.prevSeeded =
                             IF /\ ~flags.skipSeed
                                /\ exit.status # "none"
                                /\ exit.cause \notin {"connect", "migrate", "seed"}
                             THEN flags.orders ELSE 0,
                         !.argv = c]
    /\ pc' = "open"
    /\ runs' = runs + 1
    /\ faults' = 0
    /\ exit' = [status |-> "none", cause |-> "none"]
    /\ results' = << >>
    /\ scIdx' = 0
    /\ cur' = NoCur
    /\ calls' = << >>
    /\ UNCHANGED <<store, tu, ret, server>>
    /\ UNCHANGED <<pick, lab>>

\* db.Open (main.go:35-39)
Open ==
    /\ pc = "open"
    /\ \/ /\ pc' = "migrate"
          /\ UNCHANGED <<exit, faults, trace>>
       \/ /\ CanFail
          /\ faults' = faults + 1
          /\ Fatal("connect")
    /\ UNCHANGED <<store, flags, runs, tu, scIdx, results, cur, ret, server, calls>>
    /\ UNCHANGED <<pick, lab>>

\* data.EnsureSchema, then the -skip-seed branch (main.go:41-59)
AfterMigrate == IF flags.skipSeed THEN "stats" ELSE "seed"

Migrate ==
    /\ pc = "migrate"
    /\ \/ /\ pc' = AfterMigrate
          /\ UNCHANGED <<exit, faults, trace>>
       \/ /\ CanFail
          /\ faults' = faults + 1
          /\ Fatal("migrate")
    /\ UNCHANGED <<store, flags, runs, tu, scIdx, results, cur, ret, server, calls>>
    /\ UNCHANGED <<pick, lab>>

\* ------------------------------------------------------------------------
\* General population (seed.go:28-65)
\* ------------------------------------------------------------------------
SeedBatchSizeAlt == flags.batch

SeedBatchSize == IF flags.batch <= 0 THEN DefaultBatchSize ELSE flags.batch

SeedOrders ==
    IF flags.orders < CoveringCustomerTarget THEN CoveringCustomerTarget
    ELSE flags.orders

\* the no-op test of seedOrders: int(existing) >= cfg.Orders
SeedEnough(existing, orders) == existing >= orders

\* what main does with an error of SeedDataset: log.Fatalf (main.go:53-55)
OnSeedErrorAlt(err) == "log"

OnSeedError(err) == "fatal"

\* seedOrders returns err to SeedDataset, which returns it to main
\* (main.go:53-56)
SeedReturn(err, r) ==
    /\ ret' = r
    /\ tu' = NoFrame
    /\ IF err = NoErr
       THEN /\ pc' = "stats"
            /\ trace' = [trace EXCEPT !.seededEmpty = r.existing = 0]
            /\ UNCHANGED exit
       ELSE IF OnSeedError(err) = "fatal"
       THEN Fatal("seed")
       ELSE /\ pc' = "stats"
            /\ trace' = Fault("seed")
            /\ UNCHANGED exit

\* SeedDataset up to the loop of seedOrders (seed.go:28-51)
SeedDataset ==
    /\ pc = "seed"
    /\ tu.fn = "none"
    /\ LET orders == SeedOrders
           existing == Len(store)
       IN \/ /\ CanFail
             /\ faults' = faults + 1
             /\ calls' = Append(calls, Call("seedOrders", "Count", FALSE))
             /\ SeedReturn(ErrDB, RetOf("seedOrders", orders, 0, ErrDB, << >>,
                                         store, store))
          \/ /\ SeedEnough(existing, orders)
             /\ calls' = Append(calls, Call("seedOrders", "Count", TRUE))
             /\ SeedReturn(NoErr, RetOf("seedOrders", orders, existing, NoErr,
                                         << >>, store, store))
             /\ UNCHANGED faults
          \/ /\ ~SeedEnough(existing, orders)
             /\ calls' = Append(calls, Call("seedOrders", "Count", TRUE))
             /\ \E now \in NowSet :
                  tu' = [fn |-> "seedOrders", target |-> orders,
                         existing |-> existing, i |-> 0, n |-> orders - existing,
                         cap |-> SeedBatchSize, batch |-> << >>,
                         template |-> << >>, now |-> now, inserts |-> << >>,
                         before |-> store, built |-> << >>]
             /\ UNCHANGED <<pc, exit, faults, ret, trace>>
    /\ UNCHANGED <<store, flags, runs, scIdx, results, cur, server>>
    /\ UNCHANGED <<pick, lab>>

SeedIndexesAlt(i, j) == [k \in 1..(j - i + 1) |-> i + k - 1]

\* the global indexes start+i the loop passes to the builder for the loop
\* indexes i..j (seed.go:51-54)
SeedIndexes(i, j) == [k \in 1..(j - i + 1) |-> tu.existing + i + k - 1]

\* the rows the loop appends to the batch for indexes i..j
SeedRows(i, j, ds) ==
    [k \in 1..(j - i + 1) |->
        buildSyntheticOrder(SeedIndexes(i, j)[k], ds[i + k - 1], tu.now)]

\* the loop of seedOrders from index tu.i up to and including the next
\* db.Create (seed.go:53-64)
SeedFlush ==
    /\ pc = "seed"
    /\ tu.fn = "seedOrders"
    /\ LET j == NextFlush(tu.i, Len(tu.batch), tu.cap, tu.n - 1)
       IN \E ds \in [tu.i..j -> GeneralDraws] :
            LET batch == tu.batch \o SeedRows(tu.i, j, ds)
                built == tu.built \o SeedIndexes(tu.i, j)
                ins == Append(tu.inserts, [n |-> Len(batch), ok |-> TRUE])
                bad == Append(tu.inserts, [n |-> Len(batch), ok |-> FALSE])
            IN \/ /\ store' = Create(store, batch)
                  /\ calls' = Append(calls, Call("seedOrders", "Create", TRUE))
                  /\ UNCHANGED faults
                  /\ IF j = tu.n - 1
                     THEN SeedReturn(NoErr, [RetOf("seedOrders", tu.target,
                              tu.existing, NoErr, ins, tu.before, store')
                              EXCEPT !.built = built])
                     ELSE /\ tu' = [tu EXCEPT !.i = j + 1,
                                               !.batch = ResetBatch(batch),
                                               !.inserts = ins,
                                               !.built = built]
                          /\ UNCHANGED <<pc, exit, ret, trace>>
               \/ /\ CanFail
                  /\ faults' = faults + 1
                  /\ calls' = Append(calls, Call("seedOrders", "Create", FALSE))
                  /\ UNCHANGED store
                  /\ IF OnCreateError(ErrDB) = "return" \/ j = tu.n - 1
                     THEN SeedReturn(ErrDB, [RetOf("seedOrders", tu.target,
                              tu.existing, ErrDB, bad, tu.before, store)
                              EXCEPT !.built = built])
                     ELSE /\ tu' = [tu EXCEPT !.i = j + 1,
                                               !.batch = ResetBatch(batch),
                                               !.inserts = bad,
                                               !.built = built]
                          /\ UNCHANGED <<pc, exit, ret>>
                          /\ trace' = Fault("create")
    /\ UNCHANGED <<flags, runs, scIdx, results, cur, server>>
    /\ UNCHANGED <<pick, lab>>

\* logDatasetStats, whose error is only logged, then the -skip-scenarios
\* branch (main.go:61-68)
Stats ==
    /\ pc = "stats"
    /\ IF flags.skipScenarios
       THEN /\ pc' = "idle"
            /\ exit' = [status |-> "ok", cause |-> "none"]
       ELSE /\ pc' = "run"
            /\ UNCHANGED exit
    /\ UNCHANGED <<store, flags, runs, faults, tu, scIdx, results, cur, server, ret, trace,
                   calls>>
    /\ UNCHANGED <<pick, lab>>

\* ------------------------------------------------------------------------
\* Scenario catalog and runner (models.go:82-200)
\* ------------------------------------------------------------------------
\* the catalog of RunScenarios (models.go:84-132); Type and Name stand for
\* the display strings, Query for the SQL text with its arguments
Scenarios ==
    << [Type |-> "bookmark", Name |-> "index lookup", Query |-> "customer_all",
        Setup |-> "ensureHotCustomerOrders"],
       [Type |-> "bookmark", Name |-> "covering index", Query |-> "customer_id_only",
        Setup |-> "ensureHotCustomerOrders"],
       [Type |-> "function", Name |-> "function on column", Query |-> "date_function",
        Setup |-> "ensureDateRangeOrders"],
       [Type |-> "function", Name |-> "range", Query |-> "date_range",
        Setup |-> "ensureDateRangeOrders"],
       [Type |-> "type", Name |-> "type mismatch", Query |-> "phone_number",
        Setup |-> "ensurePhoneHotOrders"],
       [Type |-> "type", Name |-> "type match", Query |-> "phone_string",
        Setup |-> "ensurePhoneHotOrders"] >>

\* models.go:40: the day "2024-01-01", as a day number
indexFuncDate == 0
\* DATE(created_at)
DateOf(t) == t \div (24 * Hour)

\* a digit string compared with a number: leading zeros do not count
RECURSIVE StripZeros(_)
StripZeros(digits) ==
    IF digits # << >> /\ Head(digits) = 0 THEN StripZeros(Tail(digits)) ELSE digits

\* the WHERE clause of each catalog query
Matches(query, row) ==
    CASE query = "customer_all" -> IsHotCustomer(row)
      [] query = "customer_id_only" -> IsHotCustomer(row)
      [] query = "date_function" -> DateOf(row.CreatedAt) = indexFuncDate
      [] query = "date_range" -> InDateRange(row)
      [] query = "phone_number" -> StripZeros(row.Phone) = StripZeros(PhoneHotValue)
      [] query = "phone_string" -> IsHotPhone(row)

NewResult(sc) ==
    [Type |-> sc.Type, Name |-> sc.Name, Duration |-> 0, RowCount |-> 0,
     Explain |-> << >>, Err |-> NoErr]

\* the step after a result has been appended: the next catalog entry, or the
\* return to main (main.go:72)
AfterResultAlt(idx) == "print"

AfterResult(idx) == IF idx = Len(Scenarios) THEN "print" ELSE "setup"

AppendResultAlt(res) ==
    /\ results' = results
    /\ scIdx' = scIdx + 1
    /\ pc' = AfterResult(scIdx)

\* results = append(results, res); continue
AppendResult(res) ==
    /\ results' = Append(results, res)
    /\ scIdx' = scIdx + 1
    /\ pc' = AfterResult(scIdx)

\* res.Err = fmt.Errorf("setup: %w", err) (models.go:139-143)
SetupErrorResultAlt(sc, err) == [NewResult(sc) EXCEPT !.Err = NoErr]

SetupErrorUnwrapped(sc, err) == [NewResult(sc) EXCEPT !.Err = err]

SetupErrorResult(sc, err) == [NewResult(sc) EXCEPT !.Err = <<"setup: ">> \o err]

SetupReturnAlt(err, r) ==
    /\ ret' = r
    /\ tu' = NoFrame
    /\ pc' = IF err = NoErr THEN "query" ELSE "setup"
    /\ UNCHANGED <<results, scIdx>>

\* sc.Setup returned err (models.go:138-144)
SetupReturn(err, r) ==
    /\ ret' = r
    /\ tu' = NoFrame
    /\ IF err = NoErr
       THEN /\ pc' = "query"
            /\ UNCHANGED <<results, scIdx>>
       ELSE AppendResult(SetupErrorResult(Scenarios[scIdx], err))

\* RunScenarios is entered (main.go:70, models.go:83-134)
RunScenarios ==
    /\ pc = "run"
    /\ results' = << >>
    /\ scIdx' = 1
    /\ pc' = "setup"
    /\ trace' = [trace EXCEPT !.invoked = TRUE]
    /\ UNCHANGED <<store, flags, exit, runs, faults, tu, cur, server, ret, calls>>
    /\ UNCHANGED <<pick, lab>>

CurrentSetup == Scenarios[scIdx].Setup

\* ------------------------------------------------------------------------
\* Hot-customer population (models.go:202-247)
\* ------------------------------------------------------------------------
heavyHotNotePrefix == "hot order data"

\* Where("customer_id = ?").Order("id ASC").Take(&template)
HotRows(rows) == {k \in 1..Len(rows) : IsHotCustomer(rows[k])}
FirstHot(rows) == rows[CHOOSE k \in HotRows(rows) : \A m \in HotRows(rows) : k <= m]

\* the no-op test: existing >= CoveringCustomerTarget
HotEnoughAlt(existing) == existing >= CoveringCustomerTarget - 1

HotEnough(existing) == existing >= CoveringCustomerTarget

HotCloneAlt(template, idx) ==
    [template EXCEPT
        !.ID = 0,
        !.CustomerID = 0,
        !.CreatedAt = template.CreatedAt + idx,
        !.UpdatedAt = template.CreatedAt + idx,
        !.Note = <<heavyHotNotePrefix, idx>>,
        !.ShippedAt = IF template.ShippedAt # Nil
                      THEN Ptr(template.ShippedAt[1] + idx) ELSE Nil]

\* the clone stamped with row index idx (models.go:226-237)
HotClone(template, idx) ==
    [template EXCEPT
        !.ID = 0,
        !.CreatedAt = template.CreatedAt + idx,
        !.UpdatedAt = template.CreatedAt + idx,
        !.Note = <<heavyHotNotePrefix, idx>>,
        !.ShippedAt = IF template.ShippedAt # Nil
                      THEN Ptr(template.ShippedAt[1] + idx) ELSE Nil]

FetchTemplateErrorAlt(err) == err

\* fmt.Errorf("fetch template order: %w", err) (models.go:220)
FetchTemplateError(err) == <<"fetch template order: ">> \o err

\* ensureHotCustomerOrders up to its loop (models.go:202-224)
HotBegin ==
    /\ pc = "setup"
    /\ tu.fn = "none"
    /\ CurrentSetup = "ensureHotCustomerOrders"
    /\ LET fn == "ensureHotCustomerOrders"
           target == CoveringCustomerTarget
           existing == Len(SelectSeq(store, IsHotCustomer))
       IN \/ /\ CanFail
             /\ faults' = faults + 1
             /\ trace' = Fault("setup")
             /\ calls' = Append(calls, Call(fn, "Count", FALSE))
             /\ SetupReturn(ErrDB, RetOf(fn, target, 0, ErrDB, << >>, store, store))
          \/ /\ HotEnough(existing)
             /\ calls' = Append(calls, Call(fn, "Count", TRUE))
             /\ SetupReturn(NoErr, RetOf(fn, target, existing, NoErr, << >>,
                                          store, store))
             /\ UNCHANGED <<faults, trace>>
          \/ /\ ~HotEnough(existing)
             /\ CanFail
             /\ faults' = faults + 1
             /\ trace' = Fault("setup")
             /\ calls' = calls \o <<Call(fn, "Count", TRUE), Call(fn, "Take", FALSE)>>
             /\ SetupReturn(FetchTemplateError(ErrDB),
                            RetOf(fn, target, existing,
                                  FetchTemplateError(ErrDB), << >>,
                                  store, store))
          \/ /\ ~HotEnough(existing)
             /\ HotRows(store) = {}
             /\ calls' = calls \o <<Call(fn, "Count", TRUE), Call(fn, "Take", FALSE)>>
             /\ SetupReturn(FetchTemplateError(ErrRecordNotFound),
                            RetOf(fn, target, existing,
                                  FetchTemplateError(ErrRecordNotFound),
                                  << >>, store, store))
             /\ UNCHANGED <<faults, trace>>
          \/ /\ ~HotEnough(existing)
             /\ HotRows(store) # {}
             /\ calls' = calls \o <<Call(fn, "Count", TRUE), Call(fn, "Take", TRUE)>>
             /\ tu' = [fn |-> fn, target |-> target, existing |-> existing,
                       i |-> 0, n |-> target - existing, cap |-> HotBatchCap,
                       batch |-> << >>, template |-> FirstHot(store), now |-> 0,
                       inserts |-> << >>, before |-> store, built |-> << >>]
             /\ UNCHANGED <<pc, faults, ret, trace, results, scIdx>>
    /\ UNCHANGED <<store, flags, exit, runs, cur, server>>
    /\ UNCHANGED <<pick, lab>>

\* one flush of a top-up loop that runs inside sc.Setup: the batch is
\* created, or db.Create fails and the function returns the error
SetupFlush(batch, last) ==
    LET ins == Append(tu.inserts, [n |-> Len(batch), ok |-> TRUE])
        bad == Append(tu.inserts, [n |-> Len(batch), ok |-> FALSE])
        next == [tu EXCEPT !.i = last + 1, !.batch = ResetBatch(batch),
                           !.inserts = ins]
    IN \/ /\ store' = Create(store, batch)
          /\ calls' = Append(calls, Call(tu.fn, "Create", TRUE))
          /\ UNCHANGED <<faults, trace>>
          /\ IF last = tu.n - 1
             THEN SetupReturn(NoErr, RetOf(tu.fn, tu.target, tu.existing, NoErr,
                                           ins, tu.before, store'))
             ELSE /\ tu' = next
                  /\ UNCHANGED <<pc, ret, results, scIdx>>
       \/ /\ CanFail
          /\ faults' = faults + 1
          /\ trace' = Fault("setup")
          /\ calls' = Append(calls, Call(tu.fn, "Create", FALSE))
          /\ UNCHANGED store
          /\ IF OnCreateError(ErrDB) = "return" \/ last = tu.n - 1
             THEN SetupReturn(ErrDB, RetOf(tu.fn, tu.target, tu.existing, ErrDB,
                                           bad, tu.before, store))
             ELSE /\ tu' = [next EXCEPT !.inserts = bad]
                  /\ UNCHANGED <<pc, ret, results, scIdx>>

HotRowsForAlt(i, j) ==
    [k \in 1..(j - i + 1) |-> HotClone(tu.template, i + k - 1)]

\* the clones the loop appends to the batch for the loop indexes i..j
HotRowsFor(i, j) ==
    [k \in 1..(j - i + 1) |-> HotClone(tu.template, tu.existing + i + k - 1)]

\* the loop of ensureHotCustomerOrders from index tu.i up to and including
\* the next db.Create (models.go:225-246)
HotFlush ==
    /\ pc = "setup"
    /\ tu.fn = "ensureHotCustomerOrders"
    /\ LET j == NextFlush(tu.i, Len(tu.batch), tu.cap, tu.n - 1)
       IN SetupFlush(tu.batch \o HotRowsFor(tu.i, j), j)
    /\ UNCHANGED <<flags, exit, runs, cur, server>>
    /\ UNCHANGED <<pick, lab>>

\* ------------------------------------------------------------------------
\* Hot-phone population (models.go:249-293)
\* ------------------------------------------------------------------------
randomStatus(n) == <<"pending", "paid", "fulfilled", "cancelled">>[n + 1]

PhoneEnough(existing) == existing >= phoneHotRowTarget

PhoneOrder(i, d, now) ==
    [ID |-> 0,
     CustomerID |-> coveringCustomerID + 2000 + i,
     CustomerName |-> <<"PhoneHot", PadDigits(i, 6)>>,
     Phone |-> PhoneHotValue,
     Status |-> randomStatus(d.status),
     ProductCategory |-> "electronics",
     Region |-> "east",
     TotalAmount |-> 19900 + d.amount * 50,
     DiscountCode |-> <<"PHONEHOT">>,
     Note |-> <<"Phone hot sample #", i>>,
     CreatedAt |-> now - d.createdH * Hour,
     UpdatedAt |-> now - d.createdH * Hour,
     ShippedAt |-> Nil]

\* ensurePhoneHotOrders up to its loop (models.go:249-263); the loop index
\* runs from existing to target-1
PhoneBegin ==
    /\ pc = "setup"
    /\ tu.fn = "none"
    /\ CurrentSetup = "ensurePhoneHotOrders"
    /\ LET fn == "ensurePhoneHotOrders"
           target == phoneHotRowTarget
           existing == Len(SelectSeq(store, IsHotPhone))
       IN \/ /\ CanFail
             /\ faults' = faults + 1
             /\ trace' = Fault("setup")
             /\ calls' = Append(calls, Call(fn, "Count", FALSE))
             /\ SetupReturn(ErrDB, RetOf(fn, target, 0, ErrDB, << >>, store, store))
          \/ /\ PhoneEnough(existing)
             /\ calls' = Append(calls, Call(fn, "Count", TRUE))
             /\ SetupReturn(NoErr, RetOf(fn, target, existing, NoErr, << >>,
                                          store, store))
             /\ UNCHANGED <<faults, trace>>
          \/ /\ ~PhoneEnough(existing)
             /\ calls' = Append(calls, Call(fn, "Count", TRUE))
             /\ \E now \in NowSet :
                  tu' = [fn |-> fn, target |-> target, existing |-> existing,
                         i |-> existing, n |-> target, cap |-> PhoneBatchCap,
                         batch |-> << >>, template |-> << >>, now |-> now,
                         inserts |-> << >>, before |-> store, built |-> << >>]
             /\ UNCHANGED <<pc, faults, ret, trace, results, scIdx>>
    /\ UNCHANGED <<store, flags, exit, runs, cur, server>>
    /\ UNCHANGED <<pick, lab>>

\* the loop of ensurePhoneHotOrders up to and including the next db.Create
\* (models.go:264-286)
PhoneFlush ==
    /\ pc = "setup"
    /\ tu.fn = "ensurePhoneHotOrders"
    /\ LET j == NextFlush(tu.i, Len(tu.batch), tu.cap, tu.n - 1)
       IN \E ds \in [tu.i..j -> PhoneDraws] :
            SetupFlush(tu.batch \o [k \in 1..(j - tu.i + 1) |->
                           PhoneOrder(tu.i + k - 1, ds[tu.i + k - 1], tu.now)], j)
    /\ UNCHANGED <<flags, exit, runs, cur, server>>
    /\ UNCHANGED <<pick, lab>>

\* ------------------------------------------------------------------------
\* Date-range population (models.go:295-343)
\* ------------------------------------------------------------------------
DateEnough(existing) == existing >= DateRangeOrderTarget

\* shipped, when present, is created plus Intn(48)+1 hours
DateShipped(created, d) ==
    IF d.shipF > 40 THEN Ptr(created + (d.shipH + 1) * Hour) ELSE Nil

DateOrder(i, existing, d) ==
    LET created == indexFuncRangeStart + d.createdS
    IN  [ID |-> 0,
         CustomerID |-> coveringCustomerID + 1000,
         CustomerName |-> <<"DateHot", PadDigits(i, 6)>>,
         Phone |-> << >>,
         Status |-> randomChoiceWeighted(statuses, d.status),
         ProductCategory |-> randomChoice(categories, d.cat),
         Region |-> randomChoice(regions, d.region),
         TotalAmount |-> 5000 + d.amount * 500,
         DiscountCode |-> discountCode(d.disc),
         Note |-> <<"date hot order 2024-01-01 #", existing + i>>,
         CreatedAt |-> created,
         UpdatedAt |-> created,
         ShippedAt |-> DateShipped(created, d)]

\* ensureDateRangeOrders up to its loop (models.go:295-310)
DateBegin ==
    /\ pc = "setup"
    /\ tu.fn = "none"
    /\ CurrentSetup = "ensureDateRangeOrders"
    /\ LET fn == "ensureDateRangeOrders"
           target == DateRangeOrderTarget
           existing == Len(SelectSeq(store, InDateRange))
       IN \/ /\ CanFail
             /\ faults' = faults + 1
             /\ trace' = Fault("setup")
             /\ calls' = Append(calls, Call(fn, "Count", FALSE))
             /\ SetupReturn(ErrDB, RetOf(fn, target, 0, ErrDB, << >>, store, store))
          \/ /\ DateEnough(existing)
             /\ calls' = Append(calls, Call(fn, "Count", TRUE))
             /\ SetupReturn(NoErr, RetOf(fn, target, existing, NoErr, << >>,
                                          store, store))
             /\ UNCHANGED <<faults, trace>>
          \/ /\ ~DateEnough(existing)
             /\ calls' = Append(calls, Call(fn, "Count", TRUE))
             /\ tu' = [fn |-> fn, target |-> target, existing |-> existing,
                       i |-> 0, n |-> target - existing, cap |-> DateBatchCap,
                       batch |-> << >>, template |-> << >>, now |-> 0,
                       inserts |-> << >>, before |-> store, built |-> << >>]
             /\ UNCHANGED <<pc, faults, ret, trace, results, scIdx>>
    /\ UNCHANGED <<store, flags, exit, runs, cur, server>>
    /\ UNCHANGED <<pick, lab>>

\* the loop of ensureDateRangeOrders up to and including the next db.Create
\* (models.go:312-341)
DateFlush ==
    /\ pc = "setup"
    /\ tu.fn = "ensureDateRangeOrders"
    /\ LET j == NextFlush(tu.i, Len(tu.batch), tu.cap, tu.n - 1)
       IN \E ds \in [tu.i..j -> DateDraws] :
            SetupFlush(tu.batch \o [k \in 1..(j - tu.i + 1) |->
                           DateOrder(tu.i + k - 1, tu.existing, ds[tu.i + k - 1])], j)
    /\ UNCHANGED <<flags, exit, runs, cur, server>>
    /\ UNCHANGED <<pick, lab>>

\* ------------------------------------------------------------------------
\* Query, plan capture and the end of main
\* ------------------------------------------------------------------------
MatchCount(query) == Cardinality({k \in 1..Len(store) : Matches(query, store[k])})

\* the query is submitted and its cursor drained (models.go:146-161)
Query ==
    /\ pc = "query"
    /\ \/ /\ CanFail
          /\ faults' = faults + 1
          /\ trace' = Fault("query")
          /\ calls' = Append(calls, Call("RunScenarios", "Query", FALSE))
          /\ AppendResult([NewResult(Scenarios[scIdx]) EXCEPT !.Err = ErrDB])
          /\ UNCHANGED cur
       \/ /\ \E d \in Durations :
               cur' = [idx |-> scIdx, Duration |-> d,
                       RowCount |-> MatchCount(Scenarios[scIdx].Query),
                       attempts |-> << >>]
          /\ calls' = Append(calls, Call("RunScenarios", "Query", TRUE))
          /\ pc' = "explain"
          /\ UNCHANGED <<faults, trace, results, scIdx>>
    /\ UNCHANGED <<store, flags, exit, runs, tu, server, ret>>
    /\ UNCHANGED <<pick, lab>>

\* the result of a scenario whose query succeeded (models.go:160-168)
PlanFailedResultAlt(sc, err) ==
    [NewResult(sc) EXCEPT !.Err = err]

PlanFailedResult(sc, err) ==
    [NewResult(sc) EXCEPT !.Duration = cur.Duration, !.RowCount = cur.RowCount,
                          !.Explain = << <<"failed to collect EXPLAIN: ", err>> >>]

PlanResult(sc, lines) ==
    [NewResult(sc) EXCEPT !.Duration = cur.Duration, !.RowCount = cur.RowCount,
                          !.Explain = lines]

explainQueryNoFallback(aFail, sFail) ==
    IF ~aFail THEN [lines |-> <<"analyze plan line">>, err |-> NoErr,
                    attempts |-> <<"EXPLAIN ANALYZE">>]
    ELSE [lines |-> << >>, err |-> ErrDB, attempts |-> <<"EXPLAIN ANALYZE">>]

\* explainQuery (models.go:176-183): EXPLAIN ANALYZE, and EXPLAIN if that
\* failed.  aFail and sFail say whether each attempt fails; the result is the
\* lines, or the error of the last attempt.
explainQuery(aFail, sFail) ==
    IF ~aFail THEN [lines |-> <<"analyze plan line">>, err |-> NoErr,
                    attempts |-> <<"EXPLAIN ANALYZE">>]
    ELSE IF ~sFail THEN [lines |-> <<"plan line">>, err |-> NoErr,
                         attempts |-> <<"EXPLAIN ANALYZE", "EXPLAIN">>]
    ELSE [lines |-> << >>, err |-> ErrDB,
          attempts |-> <<"EXPLAIN ANALYZE", "EXPLAIN">>]

\* the number of store faults a plan capture with these outcomes takes: an
\* engine without EXPLAIN ANALYZE rejects the first attempt without a fault
ExplainFaults(aFail, sFail) ==
    (IF aFail /\ server.analyze THEN 1 ELSE 0) + (IF aFail /\ sFail THEN 1 ELSE 0)

\* plan capture and the append of the result (models.go:163-170)
Explain ==
    /\ pc = "explain"
    /\ \E aFail \in BOOLEAN, sFail \in BOOLEAN :
         LET sc == Scenarios[scIdx]
             e == explainQuery(aFail, sFail)
             k == ExplainFaults(aFail, sFail)
         IN /\ ~server.analyze => aFail
            /\ sFail => aFail
            /\ faults + k <= MaxFaults
            /\ faults' = faults + k
            /\ trace' = IF e.err # NoErr THEN Fault("explain")
                        ELSE IF k > 0 THEN Fault("explain analyze")
                        ELSE trace
            /\ cur' = [cur EXCEPT !.attempts = e.attempts]
            /\ calls' = calls \o [a \in 1..Len(e.attempts) |->
                            Call("explainQuery", e.attempts[a],
                                 a = Len(e.attempts) /\ e.err = NoErr)]
            /\ AppendResult(IF e.err = NoErr THEN PlanResult(sc, e.lines)
                            ELSE PlanFailedResult(sc, e.err))
    /\ UNCHANGED <<store, flags, exit, runs, tu, server, ret>>
    /\ UNCHANGED <<pick, lab>>

\* the -explain log lines and printResultsTable (main.go:72-85, 98-134);
\* a rendering error of the table ends the process through log.Fatal
PrintResults ==
    /\ pc = "print"
    /\ pc' = "idle"
    /\ \/ /\ exit' = [status |-> "ok", cause |-> "none"]
          /\ trace' = [trace EXCEPT !.table = TRUE]
          /\ UNCHANGED faults
       \/ /\ CanFail
          /\ faults' = faults + 1
          /\ exit' = [status |-> "fatal", cause |-> "render"]
          /\ trace' = [trace EXCEPT !.table = TRUE, !.failed = "render"]
    /\ UNCHANGED <<store, flags, runs, tu, scIdx, results, cur, server, ret, calls>>
    /\ UNCHANGED <<pick, lab>>

Next ==
    \/ Start
    \/ Open
    \/ Migrate
    \/ SeedDataset
    \/ SeedFlush
    \/ Stats
    \/ RunScenarios
    \/ HotBegin
    \/ HotFlush
    \/ DateBegin
    \/ DateFlush
    \/ PhoneBegin
    \/ PhoneFlush
    \/ Query
    \/ Explain
    \/ PrintResults

Spec == Init /\ [][Next]_vars

\* ------------------------------------------------------------------------
\* randomChoiceWeighted on its own (seed.go:127-146): the draw
\* n = rnd.Intn(total) ranges over [0, total), and the call is applied to the
\* status list
\* ------------------------------------------------------------------------
WeightedInit ==
    /\ ProgramInit
    /\ lab = NoLab
    /\ \E n \in 0..(WeightTotal(statuses) - 1) : pick = [NoPick EXCEPT !.n = n]

WeightedCall ==
    /\ ~pick.done
    /\ pick' = [pick EXCEPT !.done = TRUE,
                            !.item = randomChoiceWeighted(statuses, pick.n),
                            !.exit = WeightedExit(statuses, 1, pick.n)]
    /\ UNCHANGED <<store, pc, flags, exit, runs, faults, tu, scIdx, results, cur, server,
                   ret, trace, calls, lab>>

WeightedNext == WeightedCall

WeightedSpec == WeightedInit /\ [][WeightedNext]_vars

\* ------------------------------------------------------------------------
\* General seeding on its own (seed.go:28-100), the source of seedOrders
\* followed draw by draw.  A source is the sequence of values fixed by its
\* seed; Raw(seed, p) is its p-th value.
\* ------------------------------------------------------------------------
\* seed.go:50
SeedValue == 42

Raw(seed, p) == ((seed + p) * (seed + p + 3) + 7 * p) % RawMod

\* the value rnd.Intn(n) returns as the k-th next draw of rnd
Intn(rnd, k, n) == Raw(rnd.seed, rnd.pos + k) % n

\* the value rnd.Float64() returns as the k-th next draw, in hundredths
Float64(rnd, k) == Raw(rnd.seed, rnd.pos + k) % 100

NewSourceSeedAlt(now) == now

\* rand.NewSource(42) (seed.go:50)
NewSourceSeed(now) == SeedValue

\* the draws buildSyntheticOrder makes from rnd, in the order it makes them
\* (seed.go:68-98), and rnd after them
BuilderDraws(globalIdx, rnd) ==
    LET a == IF globalIdx < HotIndexLimit THEN 0 ELSE 1
        cid == IF a = 1 THEN Intn(rnd, 0, 50000) ELSE 0
        shipF == Float64(rnd, a + 1)
        b == a + 2 + (IF shipF > 30 THEN 1 ELSE 0)
        hot == BuilderCustomer(globalIdx, [cid |-> cid]) = coveringCustomerID
    IN  [d |-> [cid |-> cid,
                createdH |-> Intn(rnd, a, 365 * 24),
                shipF |-> shipF,
                shipH |-> IF shipF > 30 THEN Intn(rnd, a + 2, 72) ELSE 0,
                pre1 |-> Intn(rnd, b, Len(prefixes)),
                suf1 |-> Intn(rnd, b + 1, Pow10(8)),
                status |-> Intn(rnd, b + 2, WeightTotal(statuses)),
                cat |-> Intn(rnd, b + 3, Len(categories)),
                region |-> Intn(rnd, b + 4, Len(regions)),
                amount |-> Float64(rnd, b + 5),
                disc |-> Intn(rnd, b + 6, 100),
                note |-> Intn(rnd, b + 7, Len(loremSamples)),
                pre2 |-> IF hot THEN 0 ELSE Intn(rnd, b + 8, Len(prefixes)),
                suf2 |-> IF hot THEN 0 ELSE Intn(rnd, b + 9, Pow10(8))],
         rnd |-> [rnd EXCEPT !.pos = @ + b + 8 + (IF hot THEN 0 ELSE 2)]]

\* the loop body for the global indexes idx..last (seed.go:53-55): acc holds
\* the records built so far and rnd
RECURSIVE LabBuild(_, _, _)
LabBuild(idx, last, acc) ==
    IF idx > last THEN acc
    ELSE LET dr == BuilderDraws(idx, acc.rnd)
         IN LabBuild(idx + 1, last,
                [built |-> Append(acc.built,
                              [idx |-> idx, d |-> dr.d,
                               row |-> buildSyntheticOrder(idx, dr.d, lab.now)]),
                 rnd |-> dr.rnd])

\* cfg.BatchSize as SeedDataset passes it on
LabBatchSizes == 1..(DefaultBatchSize + 1)

\* time.Now() of seedOrders (seed.go:49)
LabNowSet == {Hour \div 2, Hour \div 2 + Hour}

LabInit ==
    /\ ProgramInit
    /\ pick = NoPick
    /\ \E t \in {CoveringCustomerTarget, CoveringCustomerTarget + ExtraOrders} :
          lab = [NoLab EXCEPT !.phase = "idle", !.target = t]

\* SeedDataset up to the loop of seedOrders (seed.go:28-51)
LabSeedDataset ==
    /\ lab.phase \in {"idle", "done"}
    /\ lab.runs < MaxRuns + 1
    /\ LET existing == Len(lab.store)
       IN IF SeedEnough(existing, lab.target)
          THEN lab' = [lab EXCEPT !.phase = "done", !.runs = @ + 1,
                                  !.existing = existing, !.n = 0, !.i = 0,
                                  !.built = << >>, !.inserts = << >>]
          ELSE \E c \in LabBatchSizes, now \in LabNowSet :
                 lab' = [lab EXCEPT !.phase = "loop", !.runs = @ + 1,
                                    !.cap = c, !.now = now,
                                    !.existing = existing,
                                    !.n = lab.target - existing, !.i = 0,
                                    !.batch = << >>,
                                    !.rnd = [seed |-> NewSourceSeed(now), pos |-> 0],
                                    !.built = << >>, !.inserts = << >>]
    /\ UNCHANGED <<store, pc, flags, exit, runs, faults, tu, scIdx, results, cur, server,
                   ret, trace, calls, pick>>

\* the loop of seedOrders from index lab.i up to and including the next
\* db.Create (seed.go:53-64)
LabFlush ==
    /\ lab.phase = "loop"
    /\ LET j == NextFlush(lab.i, Len(lab.batch), lab.cap, lab.n - 1)
           acc == LabBuild(lab.existing + lab.i, lab.existing + j,
                           [built |-> << >>, rnd |-> lab.rnd])
           batch == lab.batch \o [k \in 1..Len(acc.built) |-> acc.built[k].row]
           built == lab.built \o acc.built
           ins == Append(lab.inserts, [n |-> Len(batch), ok |-> TRUE])
           last == j = lab.n - 1
       IN lab' = [lab EXCEPT
                    !.store = Create(lab.store, batch),
                    !.batch = ResetBatch(batch),
                    !.i = j + 1,
                    !.rnd = acc.rnd,
                    !.built = built,
                    !.inserts = ins,
                    !.phase = IF last THEN "done" ELSE "loop",
                    !.first = IF last /\ ~lab.first.set /\ lab.existing = 0
                              THEN [set |-> TRUE, cap |-> lab.cap, now |-> lab.now,
                                    built |-> built, pos |-> acc.rnd.pos,
                                    inserts |-> ins]
                              ELSE @]
    /\ UNCHANGED <<store, pc, flags, exit, runs, faults, tu, scIdx, results, cur, server,
                   ret, trace, calls, pick>>

\* make down: the database volume is removed, the next run finds no table
\* rows (Makefile:11-12)
LabDown ==
    /\ lab.phase = "done"
    /\ lab.store # << >>
    /\ lab' = [lab EXCEPT !.phase = "idle", !.store = << >>]
    /\ UNCHANGED <<store, pc, flags, exit, runs, faults, tu, scIdx, results, cur, server,
                   ret, trace, calls, pick>>

LabNext ==
    \/ LabSeedDataset
    \/ LabFlush
    \/ LabDown

LabSpec == LabInit /\ [][LabNext]_vars

\* ------------------------------------------------------------------------
\* Properties
\* ------------------------------------------------------------------------
Returned == ret.fn # "none"

\* the error comes from a store call that failed (not from an empty result)
StoreFailed(err) == err # NoErr /\ err[Len(err)] = ErrDB[1]

TemplateMissing == <<"fetch template order: ">> \o ErrRecordNotFound

RECURSIVE SumOk(_)
SumOk(inserts) ==
    IF inserts = << >> THEN 0
    ELSE (IF Head(inserts).ok THEN Head(inserts).n ELSE 0) + SumOk(Tail(inserts))

\* RunScenarios has returned to main
RunnerDone == trace.invoked /\ pc \in {"print", "idle"}

Errored(rs) == {i \in 1..Len(rs) : rs[i].Err # NoErr}

\* which path wrote a row
IsGeneral(row) == row.Note[1] = "lorem"
IsClone(row) == row.Note[1] = heavyHotNotePrefix
IsDateRow(row) == row.CustomerName[1] = "DateHot"
IsPhoneRow(row) == row.CustomerName[1] = "PhoneHot"

\* C1 as claimed: a call that immediately follows a call of the same top-up
\* path with the same target that returned nil issues no insert, and the
\* matching row count equals the target.
C1_IdempotentAsClaimed ==
    ret.again => ret.inserts = << >> /\ ret.count = ret.target

\* C1 amended: such a call issues no insert and leaves the store as it was; the
\* matching row count is the target when the first call had found at most the
\* target, and otherwise the larger count the first call had found.
C1_Idempotent ==
    ret.again =>
        /\ ret.inserts = << >>
        /\ ret.created = 0
        /\ ret.kept
        /\ ret.count = Max(ret.target, ret.prevExisting)

C1_Witness ==
    /\ ret.again
    /\ ret.err = NoErr
    /\ ret.fn = "ensureHotCustomerOrders"
    /\ ret.prevExisting < ret.target
    /\ ret.count = ret.target

\* C2 as claimed: in every top-up path, a call that finds K < target matching
\* rows (K from 0) and meets no failing store call creates exactly target - K
\* rows and leaves the K existing rows as they were.
C2_TopUpAsClaimed ==
    (Returned /\ ~StoreFailed(ret.err) /\ ret.existing < ret.target) =>
        ret.created = ret.target - ret.existing /\ ret.kept

\* C2 amended: the same, except that the hot-customer path needs K >= 1: with
\* K = 0 it finds no template, returns the fetch-template error and creates
\* nothing.
C2_TopUp ==
    (Returned /\ ~StoreFailed(ret.err) /\ ret.existing < ret.target) =>
        IF ret.fn = "ensureHotCustomerOrders" /\ ret.existing = 0
        THEN ret.err = TemplateMissing /\ ret.created = 0 /\ ret.kept
        ELSE /\ ret.err = NoErr
             /\ ret.created = ret.target - ret.existing
             /\ ret.kept
             /\ ret.count = ret.target

C2_Witness ==
    /\ ret.fn = "ensureHotCustomerOrders"
    /\ ret.err = NoErr
    /\ ret.existing > 0
    /\ ret.existing < ret.target
    /\ Len(ret.inserts) > 1

\* C3: RunScenarios returns one result per catalog entry (6), in catalog
\* order, result i carrying the type and name of entry i, whatever fails.
C3_OneResultPerEntry ==
    /\ Len(Scenarios) = 6
    /\ \A i \in 1..Len(results) :
          i <= Len(Scenarios) /\ results[i].Type = Scenarios[i].Type
                              /\ results[i].Name = Scenarios[i].Name
    /\ RunnerDone => Len(results) = Len(Scenarios)

C3_Witness ==
    /\ RunnerDone
    /\ \E i, j \in 1..Len(results) :
          /\ results[i].Err = <<"setup: ">> \o TemplateMissing
          /\ results[j].Err = ErrDB

\* C4: when the only failing store call of a run is in the precondition of one
\* scenario (and the store holds a hot-customer row, so that no precondition
\* fails for want of a template), exactly that scenario's result has an error
\* and the other five have none.
C4_Isolation ==
    (/\ RunnerDone
     /\ Len(trace.faultLog) = 1
     /\ trace.faultLog[1][2] = "setup"
     /\ \E k \in 1..Len(store) : IsHotCustomer(store[k])) =>
        /\ Len(results) = Len(Scenarios)
        /\ Errored(results) = {trace.faultLog[1][1]}
        /\ Cardinality((1..Len(results)) \ Errored(results)) = Len(Scenarios) - 1

C4_Witness ==
    /\ RunnerDone
    /\ trace.faultLog = << <<1, "setup">> >>
    /\ Errored(results) = {1}
    /\ results[2].RowCount >= CoveringCustomerTarget

\* C5: a failure of connecting, migrating or seeding ends the process with a
\* failure status before RunScenarios is entered; once RunScenarios has been
\* entered the process does not end before the results table is reached, and
\* ends in failure only through the rendering of that table.
C5_FatalOrLocal ==
    /\ trace.failed \in {"connect", "migrate", "seed"} =>
          pc = "idle" /\ exit.status = "fatal" /\ ~trace.invoked
    /\ \A k \in 1..Len(trace.faultLog) :
          trace.faultLog[k][1] = 0 =>
              pc = "idle" /\ exit.status = "fatal" /\ ~trace.invoked
    /\ (trace.invoked /\ pc = "idle") => trace.table
    /\ (trace.invoked /\ exit.status = "fatal") => exit.cause = "render"

C5_Witness ==
    /\ pc = "idle"
    /\ exit.status = "ok"
    /\ trace.invoked
    /\ trace.table
    /\ Errored(results) # {}

\* C6 as claimed: right after ensureHotCustomerOrders returns nil, the count of
\* rows with the hot customer id is exactly CoveringCustomerTarget.
C6_HotCountAsClaimed ==
    (ret.fn = "ensureHotCustomerOrders" /\ ret.err = NoErr) =>
        ret.count = CoveringCustomerTarget

\* C6 amended: that count is at least CoveringCustomerTarget: it is the target
\* when the call found at most the target, and the count it found otherwise
\* (general rows may draw the hot customer id at random, and nothing is ever
\* removed).
C6_HotCount ==
    (ret.fn = "ensureHotCustomerOrders" /\ ret.err = NoErr) =>
        ret.count = Max(CoveringCustomerTarget, ret.existing)

C6_Witness ==
    /\ ret.fn = "ensureHotCustomerOrders"
    /\ ret.err = NoErr
    /\ ret.inserts # << >>
    /\ runs = 2
    /\ ret.count = CoveringCustomerTarget

\* the first process run, with seeding and without a failing store call, has
\* returned from RunScenarios: the store was empty when it started
FullRunDone ==
    /\ runs = 1
    /\ pc = "print"
    /\ ~flags.skipSeed
    /\ trace.faultLog = << >>

C8_FailFast ==
    /\ \A k \in 1..Len(tu.inserts) : tu.inserts[k].ok
    /\ \A k \in 1..(Len(ret.inserts) - 1) : ret.inserts[k].ok
    /\ (ret.inserts # << >> /\ ~ret.inserts[Len(ret.inserts)].ok) =>
          /\ ret.err = ErrDB
          /\ ret.created = SumOk(ret.inserts)
          /\ ret.kept

C8_Witness ==
    /\ ret.err = ErrDB
    /\ Len(ret.inserts) >= 2
    /\ ~ret.inserts[Len(ret.inserts)].ok
    /\ ret.created > 0

\* both plan-capture attempts of scenario i failed
PlanFailed(i) == \E k \in 1..Len(trace.faultLog) : trace.faultLog[k] = <<i, "explain">>

\* C9: when both plan-capture attempts of a scenario fail, its result has no
\* error, carries the measured duration and row count, and its plan output is
\* exactly one diagnostic line.
C9_PlanFailureNonFatal ==
    \A i \in 1..Len(results) :
        PlanFailed(i) =>
            /\ results[i].Err = NoErr
            /\ results[i].Explain = << <<"failed to collect EXPLAIN: ", ErrDB>> >>
            /\ results[i].Duration \in Durations
            /\ cur.idx = i => /\ results[i].Duration = cur.Duration
                              /\ results[i].RowCount = cur.RowCount
                              /\ cur.attempts = <<"EXPLAIN ANALYZE", "EXPLAIN">>

C9_Witness ==
    \E i \in 1..Len(results) :
        /\ PlanFailed(i)
        /\ cur.idx = i
        /\ results[i].RowCount > 0

\* C10 as claimed: every row with a shipped timestamp has it strictly after
\* its creation timestamp.
C10_ShippedAfterCreatedAsClaimed ==
    \A k \in 1..Len(store) :
        store[k].ShippedAt # Nil => store[k].ShippedAt[1] > store[k].CreatedAt

\* C10 amended: every row with a shipped timestamp has it at or after its
\* creation timestamp (the builder draws a delay of 0 to 71 hours, and a clone
\* keeps the delay of its template); it is strictly after for the rows of the
\* date-range path.
C10_ShippedNotBeforeCreated ==
    \A k \in 1..Len(store) :
        store[k].ShippedAt # Nil =>
            /\ store[k].ShippedAt[1] >= store[k].CreatedAt
            /\ IsDateRow(store[k]) => store[k].ShippedAt[1] > store[k].CreatedAt

C10_Witness ==
    /\ \E k \in 1..Len(store) :
          IsGeneral(store[k]) /\ store[k].ShippedAt = Ptr(store[k].CreatedAt)
    /\ \E k \in 1..Len(store) : IsClone(store[k]) /\ store[k].ShippedAt # Nil
    /\ \E k \in 1..Len(store) : IsDateRow(store[k]) /\ store[k].ShippedAt # Nil

\* the shape randomPhone produces (seed.go:148-152): one of the prefixes
\* followed by exactly 8 decimal digits
IsPhoneToken(p) ==
    /\ Len(p) = 3 + 8
    /\ \E k \in 1..Len(prefixes) : SubSeq(p, 1, 3) = prefixes[k]
    /\ \A k \in 4..Len(p) : p[k] \in 0..9

\* C11: every row written by any of the four population paths has a phone that
\* is one of the fixed prefixes followed by exactly 8 digits; no path writes a
\* row with an empty or differently shaped phone.
C11_PhoneShape ==
    \A k \in 1..Len(store) : IsPhoneToken(store[k].Phone)

TopUps == {"ensureHotCustomerOrders", "ensureDateRangeOrders", "ensurePhoneHotOrders"}

\* the positions of the log at which a store call failed
FailedCalls == {k \in 1..Len(calls) : ~calls[k].ok}

\* C12 as claimed: a failed store call is terminal for the operation that
\* issued it, a failed population write is terminal for the entire run, and
\* after a top-up failed inside a scenario precondition the same top-up is not
\* attempted again later in that run.
C12_NoRetriesAsClaimed ==
    \A k \in FailedCalls :
        /\ calls[k].op = "Create" => k = Len(calls)
        /\ calls[k].fn \in TopUps =>
              \A m \in (k + 1)..Len(calls) : calls[m].fn # calls[k].fn

\* C12 amended: no failed store call is reissued.  A failed call of general
\* seeding is the last store call of the run, which ends in failure.  A failed
\* call of a top-up inside a scenario precondition, or a failed query, is the
\* last store call of that scenario: the next call belongs to the next catalog
\* entry, whose precondition is called afresh (for the paired entry it is the
\* same top-up function, starting with a new count).  Within plan capture only
\* the static attempt follows the failed analyzing attempt.  Every scenario
\* calls its precondition once.
C12_NoRetries ==
    /\ \A k \in FailedCalls :
          IF calls[k].sc = 0
          THEN k = Len(calls) /\ pc = "idle" /\ exit.status = "fatal"
          ELSE k < Len(calls) =>
                  \/ /\ calls[k + 1].sc = calls[k].sc + 1
                     /\ calls[k + 1].op = "Count"
                     /\ calls[k + 1].fn = Scenarios[calls[k + 1].sc].Setup
                  \/ /\ calls[k].op = "EXPLAIN ANALYZE"
                     /\ calls[k + 1].sc = calls[k].sc
                     /\ calls[k + 1].op = "EXPLAIN"
    /\ \A i \in 1..Len(Scenarios) :
          Cardinality({k \in 1..Len(calls) : calls[k].sc = i /\ calls[k].op = "Count"}) <= 1

C12_Witness ==
    \E k \in FailedCalls, m \in 1..Len(calls) :
        /\ calls[k].fn = "ensureHotCustomerOrders"
        /\ calls[k].op = "Create"
        /\ calls[k].sc = 1
        /\ calls[m].fn = "ensureHotCustomerOrders"
        /\ calls[m].sc = 2
        /\ calls[m].op = "Create"
        /\ calls[m].ok

\* SeedDataset has returned nil to main in the current process run
Seeded == pc = "stats" /\ ~flags.skipSeed

\* C13: the effective general target is the larger of the requested -orders
\* and CoveringCustomerTarget, and a batch size <= 0 is replaced by the default;
\* after SeedDataset returns nil, whatever -orders asked for (0 and negatives
\* included) and whatever the store held, the store holds at least
\* CoveringCustomerTarget rows and at least the requested number.
C13_TargetRaising ==
    /\ tu.fn = "seedOrders" =>
          /\ tu.target = Max(trace.argv.orders, CoveringCustomerTarget)
          /\ tu.cap = IF trace.argv.batch <= 0 THEN DefaultBatchSize
                      ELSE trace.argv.batch
          /\ tu.cap >= 1
    /\ Seeded =>
          /\ ret.fn = "seedOrders"
          /\ ret.err = NoErr
          /\ ret.target = Max(trace.argv.orders, CoveringCustomerTarget)
          /\ Len(store) >= CoveringCustomerTarget
          /\ Len(store) >= trace.argv.orders

C13_Witness ==
    /\ Seeded
    /\ trace.argv.orders < 0
    /\ trace.argv.batch = 0
    /\ Len(ret.inserts) = CoveringCustomerTarget \div DefaultBatchSize
    /\ Len(store) = CoveringCustomerTarget

\* the positions of the log at which a call of a scenario precondition
\* failed, so that the precondition returned an error
FailedSetups == {k \in FailedCalls : calls[k].fn \in TopUps}

\* C14: when the precondition of scenario i returns an error, no query and no
\* plan capture is issued for scenario i; result i carries the error wrapped
\* with the label "setup: ", a zero duration, a zero row count and no plan
\* lines; and the runner goes on with catalog entry i + 1 (or returns after
\* the last entry).
C14_SetupShortCircuit ==
    \A k \in FailedSetups :
        LET i == calls[k].sc
        IN /\ \A m \in 1..Len(calls) : calls[m].sc = i => calls[m].fn \in TopUps
           /\ Len(results) >= i
           /\ results[i].Err # NoErr
           /\ results[i].Err[1] = "setup: "
           /\ calls[k].op = "Take" => results[i].Err[2] = "fetch template order: "
           /\ results[i].Err[Len(results[i].Err)] \in {ErrDB[1], ErrRecordNotFound[1]}
           /\ results[i].Duration = 0
           /\ results[i].RowCount = 0
           /\ results[i].Explain = << >>
           /\ k = Len(calls) =>
                 /\ results[i].Err = <<"setup: ">> \o ret.err
                 /\ ret.fn = calls[k].fn
                 /\ tu = NoFrame
                 /\ IF i < Len(Scenarios)
                    THEN pc = "setup" /\ scIdx = i + 1
                    ELSE pc \in {"print", "idle"}

C14_Witness ==
    \E k \in FailedSetups :
        /\ calls[k].sc = 3
        /\ calls[k].op = "Create"
        /\ Len(results) >= 4
        /\ results[4].Err = NoErr
        /\ results[4].RowCount >= DateRangeOrderTarget

\* the plan-capture calls issued for scenario i, in order
ExplainCalls(i) == SelectSeq(calls, LAMBDA c : c.sc = i /\ c.fn = "explainQuery")

\* C15: for each scenario whose query succeeded, EXPLAIN ANALYZE is attempted
\* first and once; EXPLAIN is attempted exactly when the analyzing attempt
\* failed, and once; the lines of a successful analyzing attempt are the
\* result, and after a failed one the outcome (lines or error) is that of the
\* static attempt.  A scenario whose precondition or query failed has no
\* plan-capture attempt.
C15_FallbackOrder ==
    /\ \A i \in 1..Len(results) :
          LET e == ExplainCalls(i)
          IN IF results[i].Err # NoErr THEN e = << >>
             ELSE /\ Len(e) \in {1, 2}
                  /\ e[1].op = "EXPLAIN ANALYZE"
                  /\ Len(e) = 1 <=> e[1].ok
                  /\ ~server.analyze => ~e[1].ok
                  /\ e[1].ok => results[i].Explain = <<"analyze plan line">>
                  /\ Len(e) = 2 =>
                        /\ e[2].op = "EXPLAIN"
                        /\ results[i].Explain =
                              IF e[2].ok THEN <<"plan line">>
                              ELSE << <<"failed to collect EXPLAIN: ", ErrDB>> >>
    /\ pc \in {"setup", "query", "explain"} => ExplainCalls(scIdx) = << >>

C15_Witness ==
    \E i, j \in 1..Len(results) :
        /\ results[i].Explain = <<"analyze plan line">>
        /\ results[j].Explain = <<"plan line">>
        /\ Len(ExplainCalls(j)) = 2

\* the step of the loop body a store call belongs to: 1 the precondition,
\* 2 the query, 3 the plan capture (0: a call made outside RunScenarios)
Phase(c) ==
    IF c.sc = 0 THEN 0
    ELSE IF c.fn \in TopUps THEN 1
    ELSE IF c.op = "Query" THEN 2
    ELSE 3

\* the log of store calls is in loop-body order: catalog entries in ascending
\* order without a gap, and within an entry the precondition's calls (a count
\* first), then one query, then the plan capture; every insert is made by the
\* precondition of the entry being processed
LogOrdered ==
    \A k \in 1..Len(calls) :
        /\ calls[k].sc <= Len(Scenarios)
        /\ calls[k].op = "Create" /\ calls[k].sc > 0 =>
              calls[k].fn = Scenarios[calls[k].sc].Setup
        /\ Phase(calls[k]) = 1 => calls[k].fn = Scenarios[calls[k].sc].Setup
        /\ k < Len(calls) =>
              \/ /\ calls[k + 1].sc = calls[k].sc
                 /\ Phase(calls[k]) <= Phase(calls[k + 1])
                 /\ Phase(calls[k]) = 2 => Phase(calls[k + 1]) = 3
              \/ /\ calls[k + 1].sc = calls[k].sc + 1
                 /\ Phase(calls[k + 1]) = 1
                 /\ calls[k + 1].op = "Count"

\* C16: scenarios are processed in catalog order; within a scenario the
\* precondition has returned before the query is submitted, the query's cursor
\* is drained before plan capture starts, no store call of scenario i + 1 is
\* issued before result i has been appended, and every insert the runner makes
\* is made by the precondition of the scenario being processed.  (The log only
\* grows during a run, so its order is checked on the log RunScenarios leaves
\* when it returns; what depends on the moment of a call is checked at every
\* state on the latest call.)
C16_SequentialOrder ==
    /\ pc = "print" => LogOrdered
    /\ calls # << >> => calls[Len(calls)].sc \in {Len(results), Len(results) + 1}
    /\ pc \in {"setup", "query", "explain"} =>
          /\ Len(results) = scIdx - 1
          /\ calls # << >> => calls[Len(calls)].sc \in {scIdx - 1, scIdx}
    /\ pc = "setup" /\ tu # NoFrame =>
          /\ tu.fn = Scenarios[scIdx].Setup
          /\ calls[Len(calls)].sc = scIdx
          /\ Phase(calls[Len(calls)]) = 1
    /\ pc = "query" =>
          /\ tu = NoFrame
          /\ ret.fn = Scenarios[scIdx].Setup
          /\ ret.err = NoErr
          /\ calls[Len(calls)].sc = scIdx
          /\ Phase(calls[Len(calls)]) = 1
          /\ calls[Len(calls)].ok
    /\ pc = "explain" =>
          /\ tu = NoFrame
          /\ cur.idx = scIdx
          /\ cur.RowCount = MatchCount(Scenarios[scIdx].Query)
          /\ calls[Len(calls)] = [sc |-> scIdx, fn |-> "RunScenarios",
                                  op |-> "Query", ok |-> TRUE]

C16_Witness ==
    /\ RunnerDone
    /\ FailedCalls = {}
    /\ \A i \in {1, 3, 5} :
          \E k \in 1..Len(calls) : calls[k].sc = i /\ calls[k].op = "Create"
    /\ \A i \in 1..Len(Scenarios) : results[i].RowCount > 0

\* the Note of every hot-customer clone in the store
CloneNotes == {store[k].Note : k \in {m \in 1..Len(store) : IsClone(store[m])}}

\* C17: in every top-up path, a call with deficit D >= 1 and batch capacity
\* B >= 1 that meets no failure issues ceil(D / B) insert calls, each of 1 to
\* B rows and all but the last of exactly B rows, the sizes summing to D; the
\* store gains exactly D rows, so no row is inserted twice (the batch is empty
\* after each flush, and the clones are pairwise distinct).
C17_BatchShape ==
    /\ (Returned /\ ret.err = NoErr /\ ret.existing < ret.target) =>
          LET D == ret.target - ret.existing
              B == ret.cap
              n == Len(ret.inserts)
          IN /\ B >= 1
             /\ n = (D + B - 1) \div B
             /\ \A k \in 1..n : ret.inserts[k].n \in 1..B /\ ret.inserts[k].ok
             /\ \A k \in 1..(n - 1) : ret.inserts[k].n = B
             /\ SumOk(ret.inserts) = D
             /\ ret.created = D
             /\ ret.kept
             /\ ret.fn = "ensureHotCustomerOrders" =>
                   Cardinality(CloneNotes) = Len(SelectSeq(store, IsClone))
    /\ tu.fn # "none" =>
          /\ tu.cap >= 1
          /\ tu.batch = << >>
          /\ \A k \in 1..Len(tu.inserts) : tu.inserts[k].n = tu.cap

C17_Witness ==
    /\ ret.fn = "seedOrders"
    /\ ret.err = NoErr
    /\ ret.existing = 0
    /\ ret.cap = DefaultBatchSize + 1
    /\ Len(ret.inserts) = 2
    /\ ret.inserts[2].n = CoveringCustomerTarget + ExtraOrders - ret.cap

\* C20: a general top-up that starts from K existing rows builds its i-th new
\* record (i = 0, 1, ...) with global index K + i, and every record built with
\* an index under the hot-index limit carries the hot-customer id; so once
\* SeedDataset has found the table empty and returned nil, at least that many
\* rows carry the hot-customer id and no template fetch of that process run
\* comes back empty.
C20_BuilderHotPolicy ==
    /\ tu.fn = "seedOrders" =>
          \A i \in 1..Len(tu.built) : tu.built[i] = tu.existing + i - 1
    /\ ret.fn = "seedOrders" =>
          /\ \A i \in 1..Len(ret.built) : ret.built[i] = ret.existing + i - 1
          /\ Len(ret.built) >= ret.created
          /\ \A i \in 1..ret.created :
                ret.built[i] < HotIndexLimit =>
                   store[ret.built[i] + 1].CustomerID = coveringCustomerID
    /\ trace.seededEmpty =>
          /\ Len(SelectSeq(store, IsHotCustomer)) >= HotIndexLimit
          /\ ~(ret.fn = "ensureHotCustomerOrders" /\ ret.err = TemplateMissing)
          /\ \A i \in 1..Len(results) :
                results[i].Err # <<"setup: ">> \o TemplateMissing

\* a hot-customer top-up that found its template after a seeding from empty
C20_Witness ==
    /\ trace.seededEmpty
    /\ ret.fn = "ensureHotCustomerOrders"
    /\ ret.err = NoErr
    /\ ret.created >= 1

\* the draws that make randomChoiceWeighted return the given status
DrawsFor(item) ==
    {n \in 0..(WeightTotal(statuses) - 1) : randomChoiceWeighted(statuses, n) = item}

\* C18: the draw ranges over [0, 100); the call returns pending for 0..29,
\* paid for 30..69, fulfilled for 70..89 and cancelled for 90..99, so each
\* status is selected by as many draws as its weight, and the call always
\* returns from inside the loop, never by the final return of the first item.
C18_WeightedChoice ==
    /\ WeightTotal(statuses) = 100
    /\ pick.n \in 0..99
    /\ pick.done =>
          /\ pick.item = "pending" <=> pick.n \in 0..29
          /\ pick.item = "paid" <=> pick.n \in 30..69
          /\ pick.item = "fulfilled" <=> pick.n \in 70..89
          /\ pick.item = "cancelled" <=> pick.n \in 90..99
          /\ pick.exit \in 1..Len(statuses)
          /\ pick.item = statuses[pick.exit]
          /\ Cardinality(DrawsFor(pick.item)) = weights[pick.item]

\* the largest draw has been tried and selected the last status
C18_Witness ==
    /\ pick.done
    /\ pick.n = 99
    /\ pick.item = "cancelled"

\* a record with its times taken relative to the reference time
RelativeTo(row, now) ==
    [row EXCEPT !.CreatedAt = @ - now, !.UpdatedAt = @ - now,
                !.ShippedAt = IF @ = Nil THEN Nil ELSE Ptr(@[1] - now)]

\* C19: a general seeding of the empty store builds its records in ascending
\* index order from 0, and whatever its batch size, makes the same draws and
\* builds the same records as the first seeding of the empty store with the
\* same target did: the same in every field when both were given the same
\* now, and otherwise the same up to the shift of the times; when it returns
\* it has built the whole target, drawn as many values from the source, and
\* the table holds the built records in order.
C19_Deterministic ==
    (lab.phase \in {"loop", "done"} /\ lab.existing = 0 /\ lab.first.set) =>
       /\ Len(lab.built) <= Len(lab.first.built)
       /\ \A k \in 1..Len(lab.built) :
             /\ lab.built[k].idx = k - 1
             /\ lab.built[k].d = lab.first.built[k].d
             /\ RelativeTo(lab.built[k].row, lab.now)
                   = RelativeTo(lab.first.built[k].row, lab.first.now)
             /\ lab.now = lab.first.now =>
                   lab.built[k].row = lab.first.built[k].row
       /\ lab.phase = "done" =>
             /\ Len(lab.built) = lab.target
             /\ lab.rnd.pos = lab.first.pos
             /\ lab.store = Create(<< >>, [k \in 1..Len(lab.built) |-> lab.built[k].row])

\* a second seeding of the emptied store has returned, with another batch
\* size and another number of inserts than the first and the same now, and
\* the records include a hot one, an unshipped one and a shipped one
C19_Witness ==
    /\ lab.phase = "done"
    /\ lab.existing = 0
    /\ lab.runs >= 2
    /\ lab.first.set
    /\ lab.cap # lab.first.cap
    /\ Len(lab.inserts) # Len(lab.first.inserts)
    /\ lab.now = lab.first.now
    /\ \E k \in 1..Len(lab.built) : lab.built[k].row.CustomerID = coveringCustomerID
    /\ \E k \in 1..Len(lab.built) : lab.built[k].row.ShippedAt = Nil
    /\ \E k \in 1..Len(lab.built) : lab.built[k].row.ShippedAt # Nil

\* the store holds no row with the hot-customer id
NoHotCustomer == Len(SelectSeq(store, IsHotCustomer)) = 0

\* the store calls issued for catalog entry i, in order
ScenarioCalls(i) == SelectSeq(calls, LAMBDA c : c.sc = i)

\* the catalog entries whose precondition is ensureHotCustomerOrders
HotScenarios == {i \in 1..Len(Scenarios) : Scenarios[i].Setup = "ensureHotCustomerOrders"}

\* C21: ensureHotCustomerOrders inserts only after it has counted at least one
\* hot-customer row and fetched the first of them as template.  When the store
\* holds no such row, the call issues no insert and returns an error, which
\* is the "fetch template order" error whenever the count query answered; so
\* in a run of RunScenarios on such a store both hot-customer catalog entries
\* (1 and 2) record a setup error, while for each of the other four entries
\* the precondition is called and, unless a store call of that entry fails,
\* its query and plan capture run and its result carries no error.
C21_TemplatePrecondition ==
    /\ HotScenarios = {1, 2}
    /\ tu.fn = "ensureHotCustomerOrders" =>
          /\ tu.existing >= 1
          /\ IsHotCustomer(tu.template)
          /\ \E k \in 1..Len(tu.before) : tu.before[k] = tu.template
    /\ (ret.fn = "ensureHotCustomerOrders" /\ ret.inserts # << >>) => ret.existing >= 1
    /\ (ret.fn = "ensureHotCustomerOrders" /\ ret.err = TemplateMissing) =>
          ret.existing = 0 /\ ret.inserts = << >> /\ ret.created = 0 /\ ret.kept
    /\ \A k \in 1..Len(calls) :
          (calls[k].fn = "ensureHotCustomerOrders" /\ calls[k].op = "Create") =>
              \E m \in 1..(k - 1) :
                  /\ calls[m].sc = calls[k].sc
                  /\ calls[m].op = "Take"
                  /\ calls[m].ok
    /\ (trace.invoked /\ NoHotCustomer) =>
          /\ \A i \in HotScenarios :
                Len(results) >= i =>
                   LET cs == ScenarioCalls(i)
                   IN /\ results[i].Err # NoErr
                      /\ results[i].Err[1] = "setup: "
                      /\ \A m \in 1..Len(cs) : cs[m].op \in {"Count", "Take"}
                      /\ cs[1].ok =>
                            /\ Len(cs) = 2
                            /\ ~cs[2].ok
                            /\ results[i].Err[2] = "fetch template order: "
                      /\ cs = <<>> \/ ~cs[Len(cs)].ok
          /\ \A i \in (1..Len(results)) \ HotScenarios :
                LET cs == ScenarioCalls(i)
                IN /\ cs # << >>
                   /\ cs[1].fn = Scenarios[i].Setup
                   /\ (\A m \in 1..Len(cs) : cs[m].ok) =>
                         /\ results[i].Err = NoErr
                         /\ \E m \in 1..Len(cs) : cs[m].op = "Query"
                         /\ results[i].Explain # << >>

\* a run on a store without hot-customer rows has ended: both hot-customer
\* entries carry the template error and the other four ran without error
C21_Witness ==
    /\ RunnerDone
    /\ NoHotCustomer
    /\ Len(results) = Len(Scenarios)
    /\ \A i \in 1..Len(results) :
          IF i \in HotScenarios
          THEN results[i].Err = <<"setup: ">> \o TemplateMissing
          ELSE results[i].Err = NoErr
    /\ results[3].RowCount >= DateRangeOrderTarget
    /\ results[6].RowCount >= phoneHotRowTarget

\* the fields of a row that cloning leaves as they are in the template
CloneFrame(row) ==
    [row EXCEPT !.ID = 0, !.CreatedAt = 0, !.UpdatedAt = 0, !.ShippedAt = Nil,
                !.Note = << >>]

\* row is the clone of template t stamped with row index idx: the note ends
\* in idx, the times are the template's moved by idx seconds (the update time
\* being the new creation time), and every other field but the ID is the
\* template's
StampedFrom(row, t, idx) ==
    /\ row.Note = <<heavyHotNotePrefix, idx>>
    /\ row.CreatedAt = t.CreatedAt + idx
    /\ row.UpdatedAt = t.CreatedAt + idx
    /\ row.ShippedAt = IF t.ShippedAt = Nil THEN Nil ELSE Ptr(t.ShippedAt[1] + idx)
    /\ CloneFrame(row) = CloneFrame(t)

\* C22: the rows a hot-customer top-up starting from K matching rows has
\* created are stamped K, K+1, ... in insertion order, up to the target minus
\* one when it returns nil; every clone in the table differs from the
\* template (the first hot-customer row) only in ID, creation, update and
\* shipping time and note, its times being the template's moved by its row
\* index in seconds; and whatever top-ups failed and were resumed, no two
\* clones in the table carry the same row index, and every index is under the
\* target.
C22_CloneIndexing ==
    /\ ret.fn = "ensureHotCustomerOrders" =>
          /\ \A m \in 1..ret.created :
                /\ store[ret.at + m].Note = <<heavyHotNotePrefix, ret.existing + m - 1>>
                /\ store[ret.at + m].ID = ret.at + m
          /\ (ret.err = NoErr /\ ret.existing < ret.target) =>
                ret.existing + ret.created = CoveringCustomerTarget
    /\ LET clones == {k \in 1..Len(store) : IsClone(store[k])}
       IN clones # {} =>
             \E t \in {FirstHot(store)} :
                \A k \in clones :
                   /\ StampedFrom(store[k], t, store[k].Note[2])
                   /\ store[k].Note[2] \in 1..(CoveringCustomerTarget - 1)
                   /\ \A m \in clones : m < k => store[m].Note[2] < store[k].Note[2]

\* a hot-customer top-up that resumed after an earlier one had failed part
\* way has returned nil: the table holds clones of both calls, cloned from a
\* shipped template
C22_Witness ==
    /\ ret.fn = "ensureHotCustomerOrders"
    /\ ret.err = NoErr
    /\ ret.created >= 1
    /\ Len(SelectSeq(store, IsClone)) > ret.created
    /\ FirstHot(store).ShippedAt # Nil

=============================================================================
